---- MODULE Spec2Model ----
(***************************************************************************)
(* qquotes: a command-line tool that keeps quotes (author, text) in one    *)
(* JSON file through a jfs store opened in single-file mode.  The model    *)
(* follows src/src/main.rs: one command invocation is a process that runs  *)
(* main -> run -> cmd_quote_add | cmd_quote_list | cmd_quote_delete over   *)
(* the Repository, and the data file is the only state shared between      *)
(* invocations.  Every whole-file read and every whole-file write of the   *)
(* store is a step of its own, so that two invocations can interleave.     *)
(***************************************************************************)
EXTENDS Integers, Sequences, FiniteSets, TLC

\* Number of distinct ids the store's id generator can hand out.
MaxIds == 3

Procs == {1, 2}
Ids == 1..MaxIds

\* The authors and quote texts typed at the prompts ("A" and "Bob" are the
\* widths 1 and 3 of the formatter's example; the second text needs escaping).
AuthorSet == {<<"A">>, <<"B", "o", "b">>}
TextSet == {<<"h", "i">>, <<"\"", "\\">>}

\* Terminal widths textwrap::termwidth() can report (80 is its fallback).
TermWidths == {4, 8, 80}

VARIABLES
    file,      \* the data file: [present, doc], doc maps ids to JSON objects
    uuids,     \* the ids the store has generated so far
    pc,        \* each invocation's position
    cmd,       \* each invocation's command line
    loc,       \* each invocation's locals
    out,       \* each invocation's outcome: exit code, error, stdout, table
    before,    \* the collection a reader would have seen when the invocation started
    nSaved,    \* records written by save_quote
    nDeleted,  \* records removed by delete_quote
    overlap    \* two invocations were running at the same time

vars == <<file, uuids, pc, cmd, loc, out, before, nSaved, nDeleted, overlap>>

----
\* Strings are sequences of characters.

RECURSIVE RemoveNewlines(_)
RemoveNewlines(s) ==
    IF s = <<>> THEN <<>>
    ELSE IF Head(s) = "\n" THEN RemoveNewlines(Tail(s))
    ELSE <<Head(s)>> \o RemoveNewlines(Tail(s))

\* ask: the line read from stdin with every "\n" removed.
ask(input) == RemoveNewlines(input)

\* What read_line returns for a typed string: the string and its newline.
Line(s) == s \o <<"\n">>

----
\* JSON text of a string (serde_json): the quote, the backslash and the
\* newline are escaped.

RECURSIVE Escape(_)
Escape(s) ==
    IF s = <<>> THEN <<>>
    ELSE LET c == Head(s) IN
         (CASE c = "\"" -> <<"\\", "\"">>
            [] c = "\\" -> <<"\\", "\\">>
            [] c = "\n" -> <<"\\", "n">>
            [] OTHER -> <<c>>) \o Escape(Tail(s))

RECURSIVE Unescape(_)
Unescape(t) ==
    IF t = <<>> THEN <<>>
    ELSE IF Head(t) = "\\" /\ Len(t) >= 2
         THEN <<IF t[2] = "n" THEN "\n" ELSE t[2]>> \o Unescape(Tail(Tail(t)))
         ELSE <<Head(t)>> \o Unescape(Tail(t))

QuoteToValue_mixed(q) == [author |-> Escape(q.quote), quote |-> Escape(q.quote)]

\* #[derive(Serialize)] struct Quote: an object with the keys author and quote.
QuoteToValue(q) == [author |-> Escape(q.author), quote |-> Escape(q.quote)]

\* #[derive(Deserialize)] struct Quote.
ValueToQuote(v) == [author |-> Unescape(v.author), quote |-> Unescape(v.quote)]

Quotes == [author : AuthorSet, quote : TextSet]
NoQuote == [author |-> <<>>, quote |-> <<>>]

----
\* The store (jfs, single-file mode): the file holds one JSON object, read
\* and written whole.

EmptyDoc == [i \in {} |-> NoQuote]

Without(doc, id) == [i \in DOMAIN doc \ {id} |-> doc[i]]
With(doc, id, v) == [i \in DOMAIN doc \cup {id} |-> IF i = id THEN v ELSE doc[i]]

Ok(v) == [ok |-> TRUE, val |-> v, err |-> ""]
Err(e) == [ok |-> FALSE, val |-> EmptyDoc, err |-> e]

\* Store::new_with_cfg: a missing file is created holding the empty object.
StoreNew(f) == IF f.present THEN f ELSE [present |-> TRUE, doc |-> EmptyDoc]

\* Store::save, first half: the new document, the read one plus id -> object.
StoreSaveDoc(json, id, q) == With(json, id, QuoteToValue(q))

\* Store::get: the object under id, decoded.
StoreGet(json, id) ==
    IF id \in DOMAIN json THEN Ok(ValueToQuote(json[id])) ELSE Err("NotFound")

\* Store::all: every entry decoded, keyed by id.
StoreAll(json) == [i \in DOMAIN json |-> ValueToQuote(json[i])]

\* Store::delete: the document without id, or NotFound.
StoreDelete(json, id) ==
    IF id \in DOMAIN json THEN Ok(Without(json, id)) ELSE Err("NotFound")

\* Uuid::new_v4: an id never generated before.
FreshIds == Ids \ uuids

\* What get_quotes would return on the file as it is.
Collection(f) == IF f.present THEN StoreAll(f.doc) ELSE EmptyDoc

----
\* The list formatter.

Max(S) == CHOOSE x \in S : \A y \in S : y <= x

\* id.len() of a generated id: a hyphenated UUID.
IdLen(id) == 36

\* Lines 237-242: the maxima over the whole collection, whatever the mode.
id_max_width(quotes) == Max({0} \cup {IdLen(i) : i \in DOMAIN quotes})
author_max_width(quotes) == Max({0} \cup {Len(quotes[i].author) : i \in DOMAIN quotes})

\* usize arithmetic of a - b - c - ... with every term >= 0: the difference d
\* when it is >= 0; below 0 some subtraction underflowed, which panics when
\* overflow checks are compiled in (dbg) and otherwise wraps to 2^64 + d.
Usize(d, dbg) ==
    IF d >= 0 THEN [kind |-> "exact", n |-> d]
    ELSE IF dbg THEN [kind |-> "panic", n |-> 0]
    ELSE [kind |-> "wrapped", n |-> 0 - d]

\* Lines 245 and 247: the width handed to textwrap::fill.
wrap_width(quotes, long_format, term_width, dbg) ==
    IF long_format
    THEN Usize(term_width - id_max_width(quotes) - author_max_width(quotes) - 8, dbg)
    ELSE Usize(term_width - author_max_width(quotes) - 5, dbg)

\* The keys of a BTreeMap in iteration order: ascending.
RECURSIVE SortedIds(_)
SortedIds(S) ==
    IF S = {} THEN <<>>
    ELSE LET m == CHOOSE x \in S : \A y \in S : x <= y
         IN <<m>> \o SortedIds(S \ {m})

\* format_and_display_quotes_list: one row per record in key order, each
\* with the width its quote is wrapped to; nothing is displayed when a
\* width computation panics.
format_and_display_quotes_list(quotes, long_format, term_width, dbg) ==
    LET order == SortedIds(DOMAIN quotes)
        w == wrap_width(quotes, long_format, term_width, dbg)
        row(i) == [id |-> IF long_format THEN order[i] ELSE 0,
                   author |-> quotes[order[i]].author,
                   quote |-> quotes[order[i]].quote,
                   width |-> w]
    IN IF w.kind = "panic"
       THEN [panicked |-> TRUE, rows |-> <<>>, widths |-> {}]
       ELSE [panicked |-> FALSE, rows |-> [i \in 1..Len(order) |-> row(i)],
             widths |-> {w}]

----
\* Repository and commands: what each returns to its caller.

NoTable == [panicked |-> FALSE, rows |-> <<>>, widths |-> {}]

\* A command's result: returned Ok, returned Err(msg), or panicked.
Returned(res, msg, stdout, formatted, table, W) ==
    [res |-> res, err |-> msg, stdout |-> stdout, formatted |-> formatted,
     rows |-> table.rows, widths |-> table.widths, term_width |-> W]

Plain(res, msg, stdout) == Returned(res, msg, stdout, FALSE, NoTable, 0)

\* Repository::get_quotes: the store's error as a string.
get_quotes(r) == IF r.ok THEN Ok(r.val) ELSE Err(r.err)

cmd_quote_list_always_formats(r, long_format, term_width, dbg) ==
    IF r.ok
    THEN LET t == format_and_display_quotes_list(r.val, long_format, term_width, dbg)
         IN Returned(IF t.panicked THEN "panic" ELSE "ok", "", "table", TRUE, t, term_width)
    ELSE Plain("err", r.err, "")

\* cmd_quote_list: the table for a non-empty collection, a message for an
\* empty one.
cmd_quote_list(r, long_format, term_width, dbg) ==
    IF r.ok
    THEN IF Cardinality(DOMAIN r.val) > 0
         THEN LET t == format_and_display_quotes_list(r.val, long_format, term_width, dbg)
              IN Returned(IF t.panicked THEN "panic" ELSE "ok", "",
                          IF t.panicked THEN "" ELSE "table", TRUE, t, term_width)
         ELSE Plain("ok", "", "There is no quote saved.")
    ELSE Plain("err", r.err, "")

delete_quote_swallows(r) == Plain("ok", "", "")

\* Repository::delete_quote and cmd_quote_delete: the store's error as a string.
delete_quote(r) == IF r.ok THEN Plain("ok", "", "") ELSE Plain("err", r.err, "")

\* Repository::save_quote: both store results are unwrapped.
save_quote(r) == IF r.ok THEN Plain("ok", "", "") ELSE Plain("panic", r.err, "")

\* main: exit(1) after run returned Err, 0 after Ok; a panic ends the
\* process with Rust's panic status, 101.
ExitCode(res) == CASE res = "ok" -> 0 [] res = "err" -> 1 [] res = "panic" -> 101

Running == [code |-> 0 - 1] @@ Plain("", "", "")

Exited(result) == [code |-> ExitCode(result.res)] @@ result

----
\* One invocation of the program.

Commands ==
    {[name |-> "add", long |-> FALSE, id |-> 0],
     [name |-> "none", long |-> FALSE, id |-> 0]}
    \cup {[name |-> "list", long |-> l, id |-> 0] : l \in BOOLEAN}
    \cup {[name |-> "delete", long |-> FALSE, id |-> i] : i \in Ids}

NoCommand == [name |-> "", long |-> FALSE, id |-> 0]
NoLocals ==
    [quote |-> NoQuote, saved |-> NoQuote, json |-> EmptyDoc, id |-> 0,
     fresh |-> FALSE, opened |-> FALSE]

IsRunning(q) == pc[q] \notin {"idle", "done"}

\* Adds that still have to draw an id.
PendingAdds == {q \in Procs : cmd[q].name = "add"
                              /\ pc[q] \in {"setup", "add", "save_read", "save_write"}}

Finish(p, result) ==
    /\ pc' = [pc EXCEPT ![p] = "done"]
    /\ out' = [out EXCEPT ![p] = Exited(result)]

\* The shell starts the program with a command line.
Start(p) ==
    /\ pc[p] = "idle"
    /\ \E c \in Commands :
         /\ c.name = "add" => Cardinality(FreshIds) > Cardinality(PendingAdds)
         /\ cmd' = [cmd EXCEPT ![p] = c]
    /\ pc' = [pc EXCEPT ![p] = "setup"]
    /\ before' = [before EXCEPT ![p] = Collection(file)]
    /\ loc' = [loc EXCEPT ![p] = [NoLocals EXCEPT !.fresh = ~file.present]]
    /\ overlap' = (overlap \/ \E q \in Procs \ {p} : IsRunning(q))
    /\ UNCHANGED <<file, uuids, out, nSaved, nDeleted>>

Setup_recreates_file(p) ==
    /\ pc[p] = "setup"
    /\ file' = [present |-> TRUE, doc |-> EmptyDoc]
    /\ pc' = [pc EXCEPT ![p] = cmd[p].name]
    /\ loc' = [loc EXCEPT ![p].opened = TRUE]
    /\ UNCHANGED <<uuids, cmd, out, before, nSaved, nDeleted, overlap>>

\* run, lines 69-110: the configuration and the loggers are set up with
\* unwrap (a malformed config file, a log file that cannot be opened or a
\* missing terminal panic), then the repository is opened.
Setup(p) ==
    /\ pc[p] = "setup"
    /\ \E env \in {"ok", "bad_config", "no_log", "no_store"} :
         CASE env = "ok" ->
                /\ file' = StoreNew(file)
                /\ pc' = [pc EXCEPT ![p] = cmd[p].name]
                /\ loc' = [loc EXCEPT ![p].opened = TRUE]
                /\ out' = out
           [] env = "no_store" ->
                /\ ~file.present
                /\ Finish(p, Plain("err", "StoreOpen", ""))
                /\ UNCHANGED <<file, loc>>
           [] OTHER ->
                /\ Finish(p, Plain("panic", env, ""))
                /\ UNCHANGED <<file, loc>>
    /\ UNCHANGED <<uuids, cmd, before, nSaved, nDeleted, overlap>>

\* run, lines 117-120: no subcommand.
NoDefault(p) ==
    /\ pc[p] = "none"
    /\ Finish(p, Plain("ok", "", "No default action."))
    /\ UNCHANGED <<file, uuids, cmd, loc, before, nSaved, nDeleted, overlap>>

\* cmd_quote_add, lines 164-173: the two prompts.
AskQuote(p) ==
    /\ pc[p] = "add"
    /\ \E a \in AuthorSet, t \in TextSet, stdin \in BOOLEAN :
         IF stdin
         THEN /\ loc' = [loc EXCEPT ![p].quote =
                            [author |-> ask(Line(a)), quote |-> ask(Line(t))]]
              /\ pc' = [pc EXCEPT ![p] = "save_read"]
              /\ out' = out
         ELSE /\ Finish(p, Plain("err", "Stdin", ""))
              /\ loc' = loc
    /\ UNCHANGED <<file, uuids, cmd, before, nSaved, nDeleted, overlap>>

\* save_quote, line 283, store.save: the whole file is read.
SaveRead(p) ==
    /\ pc[p] = "save_read"
    /\ \E io \in BOOLEAN :
         LET r == IF io /\ file.present THEN Ok(file.doc) ELSE Err("Io")
         IN IF save_quote(r).res = "ok"
            THEN /\ loc' = [loc EXCEPT ![p].json = r.val]
                 /\ pc' = [pc EXCEPT ![p] = "save_write"]
                 /\ out' = out
            ELSE /\ Finish(p, save_quote(r))
                 /\ loc' = loc
    /\ UNCHANGED <<file, uuids, cmd, before, nSaved, nDeleted, overlap>>

SaveWrite_keyed_by_author(p) ==
    /\ pc[p] = "save_write"
    /\ LET id == Len(loc[p].quote.author)
       IN /\ id \in Ids
          /\ uuids' = uuids \cup {id}
          /\ file' = [present |-> TRUE,
                      doc |-> StoreSaveDoc(loc[p].json, id, loc[p].quote)]
          /\ nSaved' = nSaved + 1
          /\ loc' = [loc EXCEPT ![p].id = id]
          /\ pc' = [pc EXCEPT ![p] = "save_get"]
          /\ out' = out
    /\ UNCHANGED <<cmd, before, nDeleted, overlap>>

\* save_quote, line 283, store.save: a new id is drawn and the whole file is
\* rewritten as the document read plus the new entry.
SaveWrite(p) ==
    /\ pc[p] = "save_write"
    /\ \E id \in FreshIds, io \in BOOLEAN :
         LET r == IF io THEN Ok(StoreSaveDoc(loc[p].json, id, loc[p].quote))
                  ELSE Err("Io")
         IN /\ uuids' = uuids \cup {id}
            /\ IF save_quote(r).res = "ok"
               THEN /\ file' = [present |-> TRUE, doc |-> r.val]
                    /\ nSaved' = nSaved + 1
                    /\ loc' = [loc EXCEPT ![p].id = id]
                    /\ pc' = [pc EXCEPT ![p] = "save_get"]
                    /\ out' = out
               ELSE /\ Finish(p, save_quote(r))
                    /\ UNCHANGED <<file, nSaved, loc>>
    /\ UNCHANGED <<cmd, before, nDeleted, overlap>>

\* save_quote, lines 284-286, store.get: the file is read again and the
\* entry under the new id is returned.
SaveGet(p) ==
    /\ pc[p] = "save_get"
    /\ \E io \in BOOLEAN :
         LET r == IF io /\ file.present THEN StoreGet(file.doc, loc[p].id)
                  ELSE Err("Io")
         IN /\ Finish(p, save_quote(r))
            /\ loc' = [loc EXCEPT ![p].saved = IF r.ok THEN r.val ELSE @]
    /\ UNCHANGED <<file, uuids, cmd, before, nSaved, nDeleted, overlap>>

\* cmd_quote_list over get_quotes: the file is read once, the rest is local.
ListAll(p) ==
    /\ pc[p] = "list"
    /\ \E io \in BOOLEAN, W \in TermWidths, dbg \in BOOLEAN :
         LET r == IF io /\ file.present THEN Ok(StoreAll(file.doc)) ELSE Err("Io")
         IN Finish(p, cmd_quote_list(get_quotes(r), cmd[p].long, W, dbg))
    /\ UNCHANGED <<file, uuids, cmd, loc, before, nSaved, nDeleted, overlap>>

DeleteRead_skips_store(p) ==
    /\ pc[p] = "delete"
    /\ Finish(p, Plain("ok", "", ""))
    /\ UNCHANGED <<file, uuids, cmd, loc, before, nSaved, nDeleted, overlap>>

\* delete_quote, line 299, store.delete: the whole file is read and the id
\* looked up.
DeleteRead(p) ==
    /\ pc[p] = "delete"
    /\ \E io \in BOOLEAN :
         LET r == IF io /\ file.present THEN StoreDelete(file.doc, cmd[p].id)
                  ELSE Err("Io")
         IN IF r.ok
            THEN /\ loc' = [loc EXCEPT ![p].json = r.val]
                 /\ pc' = [pc EXCEPT ![p] = "delete_write"]
                 /\ out' = out
            ELSE /\ Finish(p, delete_quote(r))
                 /\ loc' = loc
    /\ UNCHANGED <<file, uuids, cmd, before, nSaved, nDeleted, overlap>>

\* delete_quote, lines 299-305, store.delete: the whole file is rewritten
\* without the entry.
DeleteWrite(p) ==
    /\ pc[p] = "delete_write"
    /\ \E io \in BOOLEAN :
         LET r == IF io THEN Ok(loc[p].json) ELSE Err("Io")
         IN /\ Finish(p, delete_quote(r))
            /\ file' = IF r.ok THEN [present |-> TRUE, doc |-> r.val] ELSE file
            /\ nDeleted' = IF r.ok THEN nDeleted + 1 ELSE nDeleted
    /\ UNCHANGED <<uuids, cmd, loc, before, nSaved, overlap>>

\* The process is gone; the shell may start the program again.
Reinvoke(p) ==
    /\ pc[p] = "done"
    /\ pc' = [pc EXCEPT ![p] = "idle"]
    /\ cmd' = [cmd EXCEPT ![p] = NoCommand]
    /\ loc' = [loc EXCEPT ![p] = NoLocals]
    /\ out' = [out EXCEPT ![p] = Running]
    /\ before' = [before EXCEPT ![p] = EmptyDoc]
    /\ UNCHANGED <<file, uuids, nSaved, nDeleted, overlap>>

Step(p) ==
    \/ Start(p)
    \/ Setup(p)
    \/ NoDefault(p)
    \/ AskQuote(p)
    \/ SaveRead(p)
    \/ SaveWrite(p)
    \/ SaveGet(p)
    \/ ListAll(p)
    \/ DeleteRead(p)
    \/ DeleteWrite(p)

Init ==
    /\ file = [present |-> FALSE, doc |-> EmptyDoc]
    /\ uuids = {}
    /\ pc = [p \in Procs |-> "idle"]
    /\ cmd = [p \in Procs |-> NoCommand]
    /\ loc = [p \in Procs |-> NoLocals]
    /\ out = [p \in Procs |-> Running]
    /\ before = [p \in Procs |-> EmptyDoc]
    /\ nSaved = 0
    /\ nDeleted = 0
    /\ overlap = FALSE

\* One invocation after another: the program run from one shell.
Next == Step(1) \/ Reinvoke(1)

Spec == Init /\ [][Next]_vars

\* Files earlier invocations can have left: none, or one holding the record
\* saved under the first id.
StoredFiles ==
    {[present |-> FALSE, doc |-> EmptyDoc]}
    \cup {[present |-> TRUE, doc |-> StoreSaveDoc(EmptyDoc, 1, q)] : q \in Quotes}

InitConc ==
    /\ file \in StoredFiles
    /\ uuids = DOMAIN file.doc
    /\ pc = [p \in Procs |-> "idle"]
    /\ cmd = [p \in Procs |-> NoCommand]
    /\ loc = [p \in Procs |-> NoLocals]
    /\ out = [p \in Procs |-> Running]
    /\ before = [p \in Procs |-> EmptyDoc]
    /\ nSaved = Cardinality(DOMAIN file.doc)
    /\ nDeleted = 0
    /\ overlap = FALSE

\* Two invocations, one command each, against the same data file.
NextConc == \E p \in Procs : Step(p)

SpecConc == InitConc /\ [][NextConc]_vars

----
\* Properties.

Done(p, name) == pc[p] = "done" /\ cmd[p].name = name

\* C1: save_quote(q) followed by get_quotes(): the collection is the one
\* before the save plus one entry, under an id that was not a key, whose
\* author and quote text are q's; save_quote returns q; on a store that was
\* empty get_quotes() yields exactly that one entry.
C1_RoundTrip ==
    \A p \in Procs :
        Done(p, "add") /\ out[p].res = "ok" =>
            LET all == Collection(file)
                id == loc[p].id
            IN /\ id \notin DOMAIN before[p]
               /\ DOMAIN all = DOMAIN before[p] \cup {id}
               /\ all[id] = loc[p].quote
               /\ loc[p].saved = loc[p].quote
               /\ \A i \in DOMAIN before[p] : all[i] = before[p][i]
               /\ before[p] = EmptyDoc =>
                    Cardinality({i \in DOMAIN all : all[i] = loc[p].quote}) = 1

\* A quote whose text needs escaping was saved to an empty store.
C1_Witness ==
    \E p \in Procs :
        /\ Done(p, "add") /\ out[p].res = "ok"
        /\ before[p] = EmptyDoc
        /\ loc[p].quote = [author |-> <<"B", "o", "b">>, quote |-> <<"\"", "\\">>]

\* C2: delete_quote(id) with an id that is not a key returns an error (exit
\* code 1, NotFound unless the file could not even be read) and the
\* collection is what it was.
C2_DeleteMissing ==
    \A p \in Procs :
        Done(p, "delete") /\ loc[p].opened /\ cmd[p].id \notin DOMAIN before[p] =>
            /\ out[p].res = "err"
            /\ out[p].code = 1
            /\ out[p].err \in {"NotFound", "Io"}
            /\ Collection(file) = before[p]

\* An unknown id was deleted from a non-empty collection.
C2_Witness ==
    \E p \in Procs :
        /\ Done(p, "delete") /\ loc[p].opened
        /\ cmd[p].id \notin DOMAIN before[p]
        /\ before[p] # EmptyDoc
        /\ out[p].err = "NotFound"

\* C3: delete_quote(id) of an existing id removes that entry and leaves every
\* other entry as it was.
C3_DeleteExact ==
    \A p \in Procs :
        Done(p, "delete") /\ out[p].res = "ok" =>
            /\ cmd[p].id \in DOMAIN before[p]
            /\ Collection(file) = Without(before[p], cmd[p].id)

\* Of two saved quotes the first was deleted and only the second is left.
C3_Witness ==
    \E p \in Procs :
        /\ Done(p, "delete") /\ out[p].res = "ok"
        /\ Cardinality(DOMAIN before[p]) = 2
        /\ \A i \in DOMAIN before[p] : cmd[p].id <= i
        /\ Cardinality(DOMAIN Collection(file)) = 1

\* C4: the ids of repeated saves are pairwise distinct (no more saves than
\* ids drawn), a save's id is not a key of the collection it is added to and
\* overwrites no entry, and the number of entries is saves minus deletes.
C4_UniqueIds ==
    /\ nSaved <= Cardinality(uuids)
    /\ Cardinality(DOMAIN Collection(file)) = nSaved - nDeleted
    /\ \A p \in Procs :
          cmd[p].name = "add" /\ loc[p].id # 0 =>
              /\ loc[p].id \notin DOMAIN before[p]
              /\ \A i \in DOMAIN before[p] :
                    /\ i \in DOMAIN Collection(file)
                    /\ Collection(file)[i] = before[p][i]

\* A third save after a delete.
C4_Witness ==
    /\ nSaved = 3
    /\ nDeleted = 1
    /\ \E p \in Procs : Done(p, "add") /\ out[p].res = "ok"

\* C5: a store failure inside save_quote comes back as an Err.
C5_SaveFailureIsErr ==
    \A p \in Procs :
        Done(p, "add") /\ out[p].err \in {"Io", "NotFound"} => out[p].res = "err"

\* C6: the width handed to the text wrapper is at least 1 and formatting does
\* not fail.
C6_WidthClamped ==
    \A p \in Procs :
        Done(p, "list") /\ out[p].formatted =>
            /\ out[p].res # "panic"
            /\ \A w \in out[p].widths : w.kind = "exact" => w.n >= 1

\* C7: an invocation ends with exit code 1 when a step failed and with 0
\* otherwise.
C7_ExitZeroOrOne ==
    \A p \in Procs :
        pc[p] = "done" =>
            /\ out[p].code \in {0, 1}
            /\ out[p].code = 0 <=> out[p].res = "ok"

\* C8: get_quotes() on an empty store gives an empty mapping, not an error,
\* and list prints its message without calling the formatter.
C8_EmptyList ==
    \A p \in Procs :
        Done(p, "list") /\ loc[p].opened /\ before[p] = EmptyDoc /\ out[p].err # "Io" =>
            /\ out[p].res = "ok"
            /\ out[p].code = 0
            /\ out[p].stdout = "There is no quote saved."
            /\ ~out[p].formatted
            /\ out[p].rows = <<>>

\* list ran to its end on a store whose file did not exist yet.
C8_Witness ==
    \E p \in Procs :
        /\ Done(p, "list") /\ loc[p].opened /\ loc[p].fresh
        /\ out[p].res = "ok"

\* The width C9 states, as the integer it names.
C9_Width(quotes, long_format, W) ==
    IF long_format
    THEN W - Max({IdLen(i) : i \in DOMAIN quotes})
           - Max({Len(quotes[i].author) : i \in DOMAIN quotes}) - 8
    ELSE W - Max({Len(quotes[i].author) : i \in DOMAIN quotes}) - 5

\* C9: for a non-empty collection one row per record is emitted, in
\* ascending id order, each wrapped to W - author_max_width - 5 (short) or
\* W - id_max_width - author_max_width - 8 (long).
C9_RowsAndWidths ==
    \A p \in Procs :
        Done(p, "list") /\ loc[p].opened /\ before[p] # EmptyDoc /\ out[p].err # "Io" =>
            LET rows == out[p].rows
                W == out[p].term_width
            IN /\ out[p].res = "ok"
               /\ Len(rows) = Cardinality(DOMAIN before[p])
               /\ \A i \in 1..Len(rows) :
                     /\ rows[i].width =
                          [kind |-> "exact", n |-> C9_Width(before[p], cmd[p].long, W)]
                     /\ rows[i].author \in {before[p][k].author : k \in DOMAIN before[p]}
               /\ \A i, j \in 1..Len(rows) :
                     i < j /\ cmd[p].long => rows[i].id < rows[j].id

\* The part of C9 the code satisfies: whenever the stated width is not
\* negative, the rows are the records in ascending id order, each wrapped to
\* exactly that width.
C9_WithoutUnderflow ==
    \A p \in Procs :
        /\ Done(p, "list") /\ loc[p].opened /\ before[p] # EmptyDoc
        /\ out[p].err # "Io"
        /\ C9_Width(before[p], cmd[p].long, out[p].term_width) >= 0
        => LET rows == out[p].rows
               order == SortedIds(DOMAIN before[p])
           IN /\ out[p].res = "ok"
              /\ Len(rows) = Len(order)
              /\ \A i \in 1..Len(rows) :
                    /\ rows[i].width =
                         [kind |-> "exact",
                          n |-> C9_Width(before[p], cmd[p].long, out[p].term_width)]
                    /\ rows[i].author = before[p][order[i]].author
                    /\ cmd[p].long => rows[i].id = order[i]

\* C10: two invocations that did not overlap keep both effects: a saved
\* record is in the file unless the other invocation deleted it, and a
\* deleted id is not.
C10_SerialKeepsBoth ==
    (~overlap /\ \A p \in Procs : pc[p] = "done" /\ out[p].res = "ok") =>
        \A p \in Procs :
            /\ cmd[p].name = "add" =>
                  \/ loc[p].id \in DOMAIN file.doc
                  \/ \E q \in Procs \ {p} :
                        cmd[q].name = "delete" /\ cmd[q].id = loc[p].id
            /\ cmd[p].name = "delete" => cmd[p].id \notin DOMAIN file.doc

\* The lost update: two overlapping adds both report success and the file
\* lacks the record one of them saved.
C10_LostUpdate ==
    /\ overlap
    /\ \A p \in Procs : Done(p, "add") /\ out[p].res = "ok" /\ out[p].code = 0
    /\ \E p \in Procs : loc[p].id \notin DOMAIN file.doc

====
